---- MODULE Spec2Model ----
(***************************************************************************)
(* droneapi/tools/__init__.py: the SITL test fixture.                      *)
(*                                                                         *)
(*   sitl      = SITL('copter', '3.3-rc5')          module-level handle    *)
(*   sitl_args = ['-I0', '-S', '--model', 'quad', '--home=...']            *)
(*   setup_sitl()    -> sitl.launch(sitl_args, await_ready=True,           *)
(*                                  restart=True)                          *)
(*   teardown_sitl() -> sitl.stop()                                        *)
(*   with_sitl(fn)   -> test, decorated by nose's                          *)
(*                      with_setup(setup_sitl, teardown_sitl)              *)
(*                                                                         *)
(* The simulator launcher (dronekit.sitl.SITL) and the test framework      *)
(* (nose) are collaborators whose code is not part of this file: launch    *)
(* and stop follow the contract the specification gives for them           *)
(* (sections 4.1 and 6), with_setup and the runner follow nose: with_setup *)
(* attaches the two functions to the test as its setup and teardown        *)
(* attributes, and the runner (unittest's TestCase.run) calls setup, then  *)
(* the test if setup returned, then teardown if setup returned.            *)
(***************************************************************************)
EXTENDS Integers, Sequences, FiniteSets, TLC

\* Bounds of the model.
MaxCmds == 4        \* commands (launch, stop) issued to the handle in one run
MaxArg == 1         \* test arguments are drawn from 0..MaxArg

\* The threads of control that call into the module: the test runner's, and
\* a second one for the case of two tests run interleaved.
Threads == {"main", "other"}
Args == 0..MaxArg
\* Test functions handed to with_sitl: one returning 42, one returning its
\* argument, one raising.
Fns == {"ret42", "echo", "fails"}
\* How the external simulator process answers a command.
Outcomes == {"ok", "fail_early", "fail_late"}

VARIABLES
    sitl,       \* the module-level handle: vehicle, version, p (0: no process)
    sitl_args,  \* the module-level launch argument list
    procs,      \* simulator processes alive (process ids)
    ready,      \* simulator processes that reported ready
    nextPid,    \* the next process id the operating system hands out
    log,        \* the commands issued to the handle, in order, with results
    tests,      \* per test function: the wrapper with_sitl returned, if any
    pc,         \* per thread: idle | call | body | teardown
    mode,       \* per thread: the kind of its latest top-level operation
    cur,        \* per thread: the test function and argument in hand
    hist,       \* per thread: the events of its latest top-level operation
    ret,        \* per thread: what the wrapped function last returned
    exc         \* per thread: the exception its latest call surfaced ("ok": none)

vars == <<sitl, sitl_args, procs, ready, nextPid, log, tests, pc, mode, cur,
          hist, ret, exc>>
simvars == <<sitl, procs, ready, nextPid, log>>

SitlArgsLiteral ==
    <<"-I0", "-S", "--model", "quad", "--home=-35.363261,149.165230,584,353">>

NoResult == [kind |-> "none", val |-> 0]
Undecorated == [defined |-> FALSE, setup |-> "-", teardown |-> "-"]

Init ==
    /\ sitl = [vehicle |-> "copter", version |-> "3.3-rc5", p |-> 0]
    /\ sitl_args = SitlArgsLiteral
    /\ procs = {}
    /\ ready = {}
    /\ nextPid = 1
    /\ log = <<>>
    /\ tests = [f \in Fns |-> Undecorated]
    /\ pc = [t \in Threads |-> "idle"]
    /\ mode = [t \in Threads |-> "none"]
    /\ cur = [t \in Threads |-> [fn |-> "-", arg |-> 0]]
    /\ hist = [t \in Threads |-> <<>>]
    /\ ret = [t \in Threads |-> NoResult]
    /\ exc = [t \in Threads |-> "ok"]

----------------------------------------------------------------------------
\* The external simulator handle.

\* The state of the handle and of the simulator processes, as one record.
Sim ==
    [sitl |-> sitl, procs |-> procs, ready |-> ready, nextPid |-> nextPid,
     log |-> log]

Commit(s) ==
    /\ sitl' = s.sitl
    /\ procs' = s.procs
    /\ ready' = s.ready
    /\ nextPid' = s.nextPid
    /\ log' = s.log

Cmd(op, t, args, await_ready, restart, result) ==
    [op |-> op, by |-> t, args |-> args, await_ready |-> await_ready,
     restart |-> restart, result |-> result]

\* handle.launch(args, await_ready, restart), answered o by the process:
\* a running instance is an error without restart and is stopped first with
\* it; the new process either never starts (fail_early), starts and never
\* becomes ready (fail_late) or becomes ready (ok); with await_ready the call
\* returns only on ready and fails otherwise.
SITL_launch(s, t, args, await_ready, restart, o) ==
    LET running == s.sitl.p \in s.procs
        stopped == s.procs \ {s.sitl.p}
        pid == s.nextPid
    IN  IF running /\ ~restart
        THEN [s EXCEPT !.log = Append(@, Cmd("launch", t, args, await_ready,
                                             restart, "AlreadyRunning"))]
        ELSE IF o = "fail_early"
        THEN [s EXCEPT !.sitl.p = 0, !.procs = stopped,
                       !.ready = @ \ {s.sitl.p},
                       !.log = Append(@, Cmd("launch", t, args, await_ready,
                                             restart, "LaunchFailure"))]
        ELSE [s EXCEPT !.sitl.p = pid,
                       !.procs = stopped \cup {pid},
                       !.ready = (@ \ {s.sitl.p})
                                 \cup (IF o = "ok" THEN {pid} ELSE {}),
                       !.nextPid = pid + 1,
                       !.log = Append(@, Cmd("launch", t, args, await_ready,
                                  restart,
                                  IF await_ready /\ o # "ok"
                                  THEN "LaunchFailure" ELSE "ok"))]

\* handle.stop(), answered o: the handle's process is terminated (ok), or
\* the stop fails and the process is left as it was.
SITL_stop(s, t, o) ==
    LET gone == [s EXCEPT !.sitl.p = 0, !.procs = @ \ {s.sitl.p},
                          !.ready = @ \ {s.sitl.p}]
        after == IF o = "ok" THEN gone ELSE s
    IN  [after EXCEPT !.log = Append(@, Cmd("stop", t, <<>>, FALSE, FALSE,
                                   IF o = "ok" THEN "ok" ELSE "StopFailure"))]

\* What the latest command raised ("ok": it returned).
Raised(l) == IF Len(l) = 0 THEN "ok" ELSE l[Len(l)].result

----------------------------------------------------------------------------
\* The module's functions.

\* Variants of setup_sitl with a slip in the launch call.
\* await_ready=False: the call returns before the simulator is ready.
setup_sitl_noawait(t, o) ==
    LET s == SITL_launch(Sim, t, sitl_args, FALSE, TRUE, o)
    IN  /\ Commit(s)
        /\ exc' = [exc EXCEPT ![t] = Raised(s.log)]
        /\ UNCHANGED sitl_args

\* restart=False: a running instance is an error.
setup_sitl_norestart(t, o) ==
    LET s == SITL_launch(Sim, t, sitl_args, TRUE, FALSE, o)
    IN  /\ Commit(s)
        /\ exc' = [exc EXCEPT ![t] = Raised(s.log)]
        /\ UNCHANGED sitl_args

\* The argument list is extended in place on every call.
setup_sitl_mutargs(t, o) ==
    LET s == SITL_launch(Sim, t, sitl_args, TRUE, TRUE, o)
    IN  /\ Commit(s)
        /\ exc' = [exc EXCEPT ![t] = Raised(s.log)]
        /\ sitl_args' = IF Len(sitl_args) < Len(SitlArgsLiteral) + 1
                        THEN Append(sitl_args, "--speedup=1") ELSE sitl_args

\* A failed launch is tried once more.
setup_sitl_retry(t, o) ==
    LET s1 == SITL_launch(Sim, t, sitl_args, TRUE, TRUE, o)
        s == IF Raised(s1.log) = "ok" THEN s1
             ELSE SITL_launch(s1, t, sitl_args, TRUE, TRUE, "ok")
    IN  /\ Commit(s)
        /\ exc' = [exc EXCEPT ![t] = Raised(s.log)]
        /\ UNCHANGED sitl_args

\* def setup_sitl(): sitl.launch(sitl_args, await_ready=True, restart=True)
setup_sitl(t, o) ==
    LET s == SITL_launch(Sim, t, sitl_args, TRUE, TRUE, o)
    IN  /\ Commit(s)
        /\ exc' = [exc EXCEPT ![t] = Raised(s.log)]
        /\ UNCHANGED sitl_args

\* Variants of teardown_sitl: one that forgets the stop, one that waits for
\* the other threads' test bodies to finish before stopping.
teardown_sitl_noop(t, o) ==
    /\ UNCHANGED <<simvars, sitl_args>>
    /\ exc' = [exc EXCEPT ![t] = "ok"]

teardown_sitl_locked(t, o) ==
    LET s == SITL_stop(Sim, t, o)
    IN  /\ \A u \in Threads \ {t} : pc[u] \notin {"call", "body"}
        /\ Commit(s)
        /\ exc' = [exc EXCEPT ![t] = Raised(s.log)]
        /\ UNCHANGED sitl_args

\* def teardown_sitl(): sitl.stop()
teardown_sitl(t, o) ==
    LET s == SITL_stop(Sim, t, o)
    IN  /\ Commit(s)
        /\ exc' = [exc EXCEPT ![t] = Raised(s.log)]
        /\ UNCHANGED sitl_args

\* A test function's behaviour on an argument.
Apply(fn, a) ==
    CASE fn = "ret42" -> [kind |-> "return", val |-> 42]
      [] fn = "echo"  -> [kind |-> "return", val |-> a]
      [] OTHER        -> [kind |-> "raise", val |-> 0]

\* A wrapper that calls fn and forgets to return its result (None, here -1).
test_noreturn(fn, a) ==
    [fn |-> fn, arg |-> a,
     out |-> IF Apply(fn, a).kind = "return"
             THEN [kind |-> "return", val |-> -1] ELSE Apply(fn, a)]

\* def test(*args, **kargs): return fn(*args, **kargs)
\* The call the wrapper makes and what the wrapper hands back.
test(fn, a) == [fn |-> fn, arg |-> a, out |-> Apply(fn, a)]

\* nose.tools.with_setup(setup, teardown): the two functions become the
\* decorated function's setup and teardown attributes.
with_setup(setup, teardown) ==
    [defined |-> TRUE, setup |-> setup, teardown |-> teardown]

\* Variants of with_sitl: the two hooks swapped, and no teardown given.
with_sitl_swapped(fn) == with_setup("teardown_sitl", "setup_sitl")

with_sitl_noteardown(fn) == with_setup("setup_sitl", "-")

\* def with_sitl(fn): the wrapper of fn, decorated
\* with_setup(setup_sitl, teardown_sitl), is what is returned.
with_sitl(fn) == with_setup("setup_sitl", "teardown_sitl")

\* A test module applies with_sitl to one of its test functions.
Decorate(fn) ==
    /\ tests' = [tests EXCEPT ![fn] = with_sitl(fn)]
    /\ UNCHANGED <<simvars, sitl_args, pc, mode, cur, hist, ret, exc>>

----------------------------------------------------------------------------
\* Events of one top-level operation.
CmdEv(c) == [ev |-> c.op, fn |-> "-", arg |-> 0, val |-> 0, res |-> c.result]
CallEv(fn, a) == [ev |-> "call", fn |-> fn, arg |-> a, val |-> 0, res |-> "-"]
RetEv(r) == [ev |-> r.kind, fn |-> "-", arg |-> 0, val |-> r.val, res |-> "-"]

\* The events of the commands issued in this step.
NewCmds == [i \in 1..(Len(log') - Len(log)) |-> CmdEv(log'[Len(log) + i])]

\* Calling a fixture hook by the name the test carries.
\* (A test without the attribute has nothing called.)
CallHook(name, t, o) ==
    CASE name = "setup_sitl"    -> setup_sitl(t, o)
      [] name = "teardown_sitl" -> teardown_sitl(t, o)
      [] OTHER -> UNCHANGED <<simvars, sitl_args>>
                  /\ exc' = [exc EXCEPT ![t] = "ok"]

\* The runner starts a test: it calls the test's setup attribute, and goes on
\* to the test only when setup returned.
RunnerSetUp(t, fn, a, o) ==
    /\ pc[t] = "idle"
    /\ tests[fn].defined
    /\ Len(log) < MaxCmds
    /\ CallHook(tests[fn].setup, t, o)
    /\ mode' = [mode EXCEPT ![t] = "runner"]
    /\ cur' = [cur EXCEPT ![t] = [fn |-> fn, arg |-> a]]
    /\ hist' = [hist EXCEPT ![t] = NewCmds]
    /\ ret' = [ret EXCEPT ![t] = NoResult]
    /\ pc' = [pc EXCEPT ![t] = IF exc'[t] = "ok" THEN "call" ELSE "idle"]
    /\ UNCHANGED tests

\* The wrapped function is called directly, by no runner.
DirectCall(t, fn, a) ==
    /\ pc[t] = "idle"
    /\ tests[fn].defined
    /\ mode' = [mode EXCEPT ![t] = "call"]
    /\ cur' = [cur EXCEPT ![t] = [fn |-> fn, arg |-> a]]
    /\ hist' = [hist EXCEPT ![t] = <<>>]
    /\ ret' = [ret EXCEPT ![t] = NoResult]
    /\ exc' = [exc EXCEPT ![t] = "ok"]
    /\ pc' = [pc EXCEPT ![t] = "call"]
    /\ UNCHANGED <<simvars, sitl_args, tests>>

\* A wrapper that launches the simulator itself before calling fn.
CallTest_with_setup(t) ==
    /\ pc[t] = "call"
    /\ setup_sitl(t, "ok")
    /\ LET c == test(cur[t].fn, cur[t].arg)
       IN  hist' = [hist EXCEPT ![t] = Append(@, CallEv(c.fn, c.arg))]
    /\ pc' = [pc EXCEPT ![t] = "body"]
    /\ UNCHANGED <<tests, mode, cur, ret>>

\* The wrapper is entered: it calls fn with the arguments it was given.
CallTest(t) ==
    /\ pc[t] = "call"
    /\ LET c == test(cur[t].fn, cur[t].arg)
       IN  hist' = [hist EXCEPT ![t] = Append(@, CallEv(c.fn, c.arg))]
    /\ pc' = [pc EXCEPT ![t] = "body"]
    /\ UNCHANGED <<simvars, sitl_args, tests, mode, cur, ret, exc>>

\* fn returns or raises, and so does the wrapper. Under the runner teardown
\* is next either way.
ReturnTest(t) ==
    /\ pc[t] = "body"
    /\ LET r == test(cur[t].fn, cur[t].arg).out
       IN  /\ hist' = [hist EXCEPT ![t] = Append(@, RetEv(r))]
           /\ ret' = [ret EXCEPT ![t] = r]
           /\ exc' = [exc EXCEPT ![t] =
                         IF r.kind = "raise" THEN "TestError" ELSE "ok"]
    /\ pc' = [pc EXCEPT ![t] = IF mode[t] = "runner" THEN "teardown" ELSE "idle"]
    /\ UNCHANGED <<simvars, sitl_args, tests, mode, cur>>

\* The runner calls the test's teardown attribute.
RunnerTearDown(t, o) ==
    /\ pc[t] = "teardown"
    /\ Len(log) < MaxCmds
    /\ CallHook(tests[cur[t].fn].teardown, t, o)
    /\ hist' = [hist EXCEPT ![t] = @ \o NewCmds]
    /\ pc' = [pc EXCEPT ![t] = "idle"]
    /\ UNCHANGED <<tests, mode, cur, ret>>

\* setup_sitl() called on its own.
DirectSetup(t, o) ==
    /\ pc[t] = "idle"
    /\ Len(log) < MaxCmds
    /\ setup_sitl(t, o)
    /\ mode' = [mode EXCEPT ![t] = "setup_sitl"]
    /\ hist' = [hist EXCEPT ![t] = NewCmds]
    /\ UNCHANGED <<tests, pc, cur, ret>>

\* teardown_sitl() called on its own.
DirectTeardown(t, o) ==
    /\ pc[t] = "idle"
    /\ Len(log) < MaxCmds
    /\ teardown_sitl(t, o)
    /\ mode' = [mode EXCEPT ![t] = "teardown_sitl"]
    /\ hist' = [hist EXCEPT ![t] = NewCmds]
    /\ UNCHANGED <<tests, pc, cur, ret>>

\* A test run by the runner, step by step.
RunnerStep(t) ==
    \/ \E fn \in Fns, a \in Args, o \in Outcomes : RunnerSetUp(t, fn, a, o)
    \/ CallTest(t)
    \/ ReturnTest(t)
    \/ \E o \in Outcomes : RunnerTearDown(t, o)

Step(t) ==
    \/ RunnerStep(t)
    \/ \E fn \in Fns, a \in Args : DirectCall(t, fn, a)
    \/ \E o \in Outcomes : DirectSetup(t, o)
    \/ \E o \in Outcomes : DirectTeardown(t, o)

\* One thread of control: tests and calls run one after the other.
Next == (\E fn \in Fns : Decorate(fn)) \/ Step("main")
Spec == Init /\ [][Next]_vars

\* Wrapped tests run by several threads of control, interleaved. The test
\* modules are imported, and their functions decorated, before any test runs.
InitConc ==
    /\ sitl = [vehicle |-> "copter", version |-> "3.3-rc5", p |-> 0]
    /\ sitl_args = SitlArgsLiteral
    /\ procs = {}
    /\ ready = {}
    /\ nextPid = 1
    /\ log = <<>>
    /\ tests = [f \in Fns |-> with_sitl(f)]
    /\ pc = [t \in Threads |-> "idle"]
    /\ mode = [t \in Threads |-> "none"]
    /\ cur = [t \in Threads |-> [fn |-> "-", arg |-> 0]]
    /\ hist = [t \in Threads |-> <<>>]
    /\ ret = [t \in Threads |-> NoResult]
    /\ exc = [t \in Threads |-> "ok"]

NextConc == \E t \in Threads : RunnerStep(t)
SpecConc == InitConc /\ [][NextConc]_vars

----------------------------------------------------------------------------
\* The simulator as the module's callers see it.
Running == sitl.p \in procs /\ sitl.p \in ready
Stopped == procs = {}
LastCmd == log[Len(log)]

\* Thread t's latest operation was a test under the runner (a direct call of
\* the wrapped function), it is over, and the test body returned normally.
RunnerDone(t) == pc[t] = "idle" /\ mode[t] = "runner"
DirectDone(t) == pc[t] = "idle" /\ mode[t] = "call"
ReturnedNormally(t) == ret[t].kind = "return"

\* The events of an operation are one launch, the call of the test in hand
\* with its arguments, its return, one stop: in that order and nothing else.
SetupCallTeardown(h, c) ==
    /\ Len(h) = 4
    /\ h[1].ev = "launch"
    /\ h[2] = CallEv(c.fn, c.arg)
    /\ h[3].ev = "return"
    /\ h[4].ev = "stop"

HasEv(h, e) == \E i \in 1..Len(h) : h[i].ev = e
Before(h, e1, e2) ==
    \E i, j \in 1..Len(h) : i < j /\ h[i].ev = e1 /\ h[j].ev = e2

C5_OneInstance ==
    /\ Cardinality(procs) <= 1
    /\ procs \subseteq {sitl.p}
    /\ sitl.vehicle = "copter" /\ sitl.version = "3.3-rc5"
    /\ \A i \in 1..Len(log) : log[i].result # "AlreadyRunning"
    /\ Len(log) > 0 /\ LastCmd.op = "launch" /\ LastCmd.result = "ok"
           => Cardinality(procs) = 1

\* setup_sitl twice in succession, both returning: the second instance has
\* replaced the first.
C5_Witness ==
    /\ Len(log) = 2
    /\ log[1].op = "launch" /\ log[1].result = "ok"
    /\ log[2].op = "launch" /\ log[2].result = "ok"
    /\ mode["main"] = "setup_sitl"
    /\ procs = {2}
    /\ sitl.p = 2

\* C6: every launch command carries the literal argument list, in order, with
\* await_ready and restart set; the module-level list is never modified.
C6_LaunchArguments ==
    /\ sitl_args = SitlArgsLiteral
    /\ \A i \in 1..Len(log) :
           log[i].op = "launch"
               => /\ log[i].args = <<"-I0", "-S", "--model", "quad",
                                     "--home=-35.363261,149.165230,584,353">>
                  /\ log[i].await_ready
                  /\ log[i].restart

C6_Witness ==
    /\ Len(log) = 3
    /\ log[1].op = "launch"
    /\ log[2].op = "stop"
    /\ log[3].op = "launch"
    /\ log[3].args = SitlArgsLiteral

\* C7: a launch failure in setup_sitl reaches the caller as it is, after
\* exactly one launch attempt, and the runner does not invoke the test body;
\* a stop failure in teardown_sitl reaches the caller as it is, after exactly
\* one stop.
C7_FailuresSurface ==
    \A t \in Threads :
        /\ RunnerDone(t) /\ ~HasEv(hist[t], "call")
               => /\ Len(hist[t]) = 1
                  /\ hist[t][1].ev = "launch"
                  /\ hist[t][1].res = "LaunchFailure"
                  /\ exc[t] = "LaunchFailure"
                  /\ ret[t].kind = "none"
        /\ RunnerDone(t) /\ HasEv(hist[t], "call")
               => /\ Len(hist[t]) = 4
                  /\ hist[t][1].res = "ok"
                  /\ hist[t][4].ev = "stop"
                  /\ exc[t] = hist[t][4].res
        /\ mode[t] = "setup_sitl"
               => /\ Len(hist[t]) = 1
                  /\ hist[t][1].ev = "launch"
                  /\ exc[t] = hist[t][1].res
        /\ mode[t] = "teardown_sitl"
               => /\ Len(hist[t]) = 1
                  /\ hist[t][1].ev = "stop"
                  /\ exc[t] = hist[t][1].res

\* A test whose setup failed, after a test that ran.
C7_Witness ==
    /\ RunnerDone("main")
    /\ exc["main"] = "LaunchFailure"
    /\ Len(hist["main"]) = 1
    /\ Len(log) = 3
    /\ log[3].op = "launch" /\ log[3].result = "LaunchFailure"

C9_NoMutualExclusion ==
    \A t \in Threads :
        /\ pc[t] = "teardown" /\ Len(log) < MaxCmds
               => ENABLED (\E o \in Outcomes : RunnerTearDown(t, o))
        /\ pc[t] = "idle" /\ Len(log) < MaxCmds /\ tests["echo"].defined
               => ENABLED (\E o \in Outcomes : RunnerSetUp(t, "echo", 0, o))
        /\ mode[t] = "runner" /\ pc[t] = "body" /\ ~Running
               => Len(log) > 0 /\ LastCmd.by # t

\* A test body executing while the simulator is stopped by the other test.
C9_Witness ==
    /\ pc["main"] = "body"
    /\ mode["main"] = "runner"
    /\ Stopped
    /\ LastCmd.op = "stop" /\ LastCmd.by = "other" /\ LastCmd.result = "ok"

\* C10: applying with_sitl, and every step of a direct call of the wrapped
\* function (entering it, calling fn, returning), leave the simulator, the
\* handle and the commands issued as they were.
C10_WrapperIssuesNothing ==
    [][(\/ tests' # tests
        \/ \E t \in Threads :
               /\ mode'[t] = "call"
               /\ pc'[t] # pc[t] \/ mode[t] # "call")
       => UNCHANGED <<simvars, sitl_args>>]_vars

\* A direct call has returned and no command was ever issued.
C10_Witness ==
    /\ DirectDone("main")
    /\ ret["main"] = [kind |-> "return", val |-> 42]
    /\ log = <<>>
    /\ Stopped

====
